---- MODULE Spec2Model ----
(***************************************************************************)
(* A model of crates/eww/src/widgets/system_tray.rs: the bridge thread     *)
(* that relays notifier-host messages (start_communication_thread), the    *)
(* handler on the glib main context that applies them to STATE and         *)
(* rebuilds the menu bar (spawn_local_handler), the icon lookup            *)
(* (NotifierItem::get_icon) and the recursive menu construction            *)
(* (StatusNotifierWrapper::to_menu_item) with its activate callbacks.      *)
(***************************************************************************)
EXTENDS Integers, Sequences, FiniteSets, TLC

(***************************************************************************)
(* Bounds of the model.                                                    *)
(***************************************************************************)
\* number of messages host.recv() yields before the model stops the host
MaxEvents == 2
\* capacity of the mpsc channel bridge -> UI (chosen by the caller)
InCap == 1
\* capacity of the mpsc channel UI -> bridge (chosen by the caller)
CmdCap == 1

(***************************************************************************)
(* Option<T>: None is the empty sequence, Some(x) the one-element one.     *)
(***************************************************************************)
None == <<>>

Some(x) == <<x>>

(***************************************************************************)
(* stray::message::menu::MenuItem, reduced to the fields the file reads:   *)
(* id, label, menu_type, submenu.                                          *)
(***************************************************************************)
Standard(id, label, sub) ==
    [id |-> id, label |-> label, menu_type |-> "Standard", submenu |-> sub]

Separator(id, sub) ==
    [id |-> id, label |-> "", menu_type |-> "Separator", submenu |-> sub]

\* TrayMenu { submenus }
TrayMenu(subs) == [submenus |-> subs]

\* a menu with one Standard entry "X"
MenuX == TrayMenu(<< Standard(1, "X", <<>>) >>)

\* a nested menu: a Standard parent with a Standard child, and a Separator
\* that itself carries a child
MenuDeep ==
    TrayMenu(<< Standard(1, "open", << Standard(2, "sub", <<>>) >>),
                Separator(3, << Standard(4, "below", <<>>) >>) >>)

\* a menu whose root sequence is empty
MenuEmpty == TrayMenu(<<>>)

(***************************************************************************)
(* NotifierItem { item: StatusNotifierItem, menu: Option<TrayMenu> }.      *)
(* Of StatusNotifierItem the file reads icon_name, icon_theme_path,        *)
(* status and menu (the object path of the item's menu).                   *)
(***************************************************************************)
NotifierItem(icon_name, icon_theme_path, status, menu_path, menu) ==
    [item |-> [icon_name |-> icon_name, icon_theme_path |-> icon_theme_path,
               status |-> status, menu |-> menu_path],
     menu |-> menu]

\* The payloads the host announces in the model.
\* a well-formed item with a custom theme path and a nested menu
ItemFull ==
    NotifierItem(Some("ico"), Some("/theme"), "Active", Some("/MenuBar"), Some(MenuDeep))

\* an item with an empty theme path, no menu path and no menu
ItemPlain == NotifierItem(Some("ico"), Some(""), "NeedsAttention", None, None)

\* a Passive item without icon name and with a menu but no menu path
ItemPassive == NotifierItem(None, None, "Passive", None, Some(MenuX))

\* a displayed item without icon name
ItemNoIcon == NotifierItem(None, None, "Active", None, None)

\* a displayed item with a menu but no menu path
ItemNoMenuPath == NotifierItem(Some("ico"), None, "NeedsAttention", None, Some(MenuX))

\* a displayed item with an empty menu and no menu path
ItemEmptyMenu == NotifierItem(Some("ico"), None, "Active", None, Some(MenuEmpty))

\* a well-formed item without a theme path, with a one-entry menu
ItemSmall == NotifierItem(Some("ico"), None, "Active", Some("/Other"), Some(MenuX))

Payloads ==
    { ItemFull, ItemPlain, ItemPassive, ItemNoIcon, ItemNoMenuPath, ItemEmptyMenu, ItemSmall }

Addresses == {"A", "B"}

\* NotifierItemMessage
Update(address, ni) ==
    [type |-> "Update", address |-> address, item |-> ni.item, menu |-> ni.menu]

Remove(address) == [type |-> "Remove", address |-> address]

\* the messages of the model's host: for "A" any payload but ItemSmall; for
\* "B" only ItemSmall
Messages ==
    { Update("A", ni) : ni \in Payloads \ {ItemSmall} }
        \cup { Update("B", ItemSmall) }
        \cup { Remove(a) : a \in Addresses }

(***************************************************************************)
(* The icon themes: which of the three load_icon calls of get_icon         *)
(* succeed.  Fixed for a run.  When the lookup in the default theme        *)
(* succeeds the fallback lookup is never made, so only the themes in which *)
(* "image-missing" is then present are kept: they are the ones in which a  *)
(* wrong order of the lookups shows.                                       *)
(***************************************************************************)
Themes ==
    { th \in [custom : BOOLEAN, default : BOOLEAN, fallback : BOOLEAN] :
        th.default => th.fallback }

VARIABLES
    theme,      \* outcome of the icon lookups
    hostLog,    \* messages host.recv() has returned, oldest first
    b_pc,       \* position of the bridge thread
    message,    \* the bridge's `message` while it awaits the send
    inbound,    \* channel bridge -> UI
    sentLog,    \* messages sender.send() has put on the channel, oldest first
    destroyed,  \* number of host.destroy() calls
    s_pc,       \* position of the future spawned on the main context
    lock,       \* STATE's mutex: "free", "held" or "poisoned"
    state,      \* the map behind STATE: address -> Option<NotifierItem>, None for no entry
    iter,       \* addresses state.iter() has still to yield, in its order
    v_box,      \* children of the menu bar
    shows,      \* v_box.show_all() calls since the last message was received
    outbound,   \* channel UI -> bridge (NotifierItemCommand)
    ui          \* "running", or "panicked" once the UI thread has panicked

vars == << theme, hostLog, b_pc, message, inbound, sentLog, destroyed,
           s_pc, lock, state, iter, v_box, shows, outbound, ui >>

bridgeVars == << hostLog, b_pc, message, sentLog, destroyed >>

syncVars == << s_pc, lock, state, iter, v_box, shows >>

Init ==
    /\ theme \in Themes
    /\ hostLog = <<>>
    /\ b_pc = "connect"
    /\ message = None
    /\ inbound = <<>>
    /\ sentLog = <<>>
    /\ destroyed = 0
    /\ s_pc = "await"
    /\ lock = "free"
    /\ state = [a \in Addresses |-> None]
    /\ iter = <<>>
    /\ v_box = <<>>
    /\ shows = 0
    /\ outbound = <<>>
    /\ ui = "running"

(***************************************************************************)
(* StatusNotifierWrapper::to_menu_item.  The widget it returns is a record *)
(* of the widget's kind and label, the values the activate closure         *)
(* captured, and the submenu set on it (None when set_submenu is not       *)
(* called).                                                                *)
(***************************************************************************)
\* as if the recursive call passed menu_path and notifier_address in each
\* other's place
RECURSIVE to_menu_item_swapped(_, _, _)
to_menu_item_swapped(menu, notifier_address, menu_path) ==
    LET submenu == [i \in 1..Len(menu.submenu) |->
                        to_menu_item_swapped(menu.submenu[i], menu_path, notifier_address)]
    IN  [kind |-> IF menu.menu_type = "Separator" THEN "SeparatorMenuItem" ELSE "MenuItem",
         label |-> IF menu.menu_type = "Separator" THEN "" ELSE menu.label,
         activate |-> [submenu_id |-> menu.id,
                       menu_path |-> menu_path,
                       notifier_address |-> notifier_address],
         submenu |-> IF menu.submenu # <<>> THEN Some(submenu) ELSE None]

\* as if set_submenu were called without the test on submenu.is_empty()
RECURSIVE to_menu_item_always_submenu(_, _, _)
to_menu_item_always_submenu(menu, notifier_address, menu_path) ==
    LET submenu == [i \in 1..Len(menu.submenu) |->
                        to_menu_item_always_submenu(menu.submenu[i], notifier_address, menu_path)]
    IN  [kind |-> IF menu.menu_type = "Separator" THEN "SeparatorMenuItem" ELSE "MenuItem",
         label |-> IF menu.menu_type = "Separator" THEN "" ELSE menu.label,
         activate |-> [submenu_id |-> menu.id,
                       menu_path |-> menu_path,
                       notifier_address |-> notifier_address],
         submenu |-> Some(submenu)]

RECURSIVE to_menu_item(_, _, _)
to_menu_item(menu, notifier_address, menu_path) ==
    LET submenu == [i \in 1..Len(menu.submenu) |->
                        to_menu_item(menu.submenu[i], notifier_address, menu_path)]
    IN  [kind |-> IF menu.menu_type = "Separator" THEN "SeparatorMenuItem" ELSE "MenuItem",
         label |-> IF menu.menu_type = "Separator" THEN "" ELSE menu.label,
         activate |-> [submenu_id |-> menu.id,
                       menu_path |-> menu_path,
                       notifier_address |-> notifier_address],
         submenu |-> IF menu.submenu # <<>> THEN Some(submenu) ELSE None]

(***************************************************************************)
(* NotifierItem::get_icon.  It panics at the unwrap of icon_name when the  *)
(* name is None; otherwise it returns Some(image), the image named after   *)
(* the lookup that produced it, or None.                                   *)
(***************************************************************************)
get_icon_panics(ni) == ni.item.icon_name = None

\* as if the fallback image were looked up before the default theme
get_icon_fallback_first(ni, th) ==
    LET path == ni.item.icon_theme_path
    IN  IF path # None /\ path[1] # "" /\ th.custom THEN Some("custom")
        ELSE IF th.fallback THEN Some("image-missing")
        ELSE IF th.default THEN Some("default")
        ELSE None

get_icon(ni, th) ==
    LET path == ni.item.icon_theme_path
    IN  IF path # None /\ path[1] # "" /\ th.custom THEN Some("custom")
        ELSE IF th.default THEN Some("default")
        ELSE IF th.fallback THEN Some("image-missing")
        ELSE None

(***************************************************************************)
(* The match on the message in spawn_local_handler: HashMap::insert and    *)
(* HashMap::remove.                                                        *)
(***************************************************************************)
\* as if Update were entry(id).or_insert(..): an existing record is kept
apply_or_insert(st, msg) ==
    IF msg.type = "Update"
    THEN IF st[msg.address] # None THEN st
         ELSE [st EXCEPT ![msg.address] = Some([item |-> msg.item, menu |-> msg.menu])]
    ELSE [st EXCEPT ![msg.address] = None]

\* as if Update kept the stored menu when the message carries none
apply_keep_menu(st, msg) ==
    IF msg.type = "Update"
    THEN [st EXCEPT ![msg.address] =
            Some([item |-> msg.item,
                  menu |-> IF msg.menu = None /\ st[msg.address] # None
                           THEN st[msg.address][1].menu ELSE msg.menu])]
    ELSE [st EXCEPT ![msg.address] = None]

\* as if Remove were state.retain(|k, _| k == &address): the test inverted
apply_retain_inverted(st, msg) ==
    IF msg.type = "Update"
    THEN [st EXCEPT ![msg.address] = Some([item |-> msg.item, menu |-> msg.menu])]
    ELSE [a \in Addresses |-> IF a = msg.address THEN st[a] ELSE None]

apply(st, msg) ==
    IF msg.type = "Update"
    THEN [st EXCEPT ![msg.address] = Some([item |-> msg.item, menu |-> msg.menu])]
    ELSE [st EXCEPT ![msg.address] = None]

Keys(st) == { a \in Addresses : st[a] # None }

(***************************************************************************)
(* The orders in which HashMap::iter may yield the keys: the map is built  *)
(* with the default RandomState hasher, so any order of the keys.          *)
(***************************************************************************)
IterOrders(st) ==
    { s \in UNION { [1..n -> Keys(st)] : n \in {Cardinality(Keys(st))} } :
        \A i, j \in 1..Len(s) : i # j => s[i] # s[j] }

(***************************************************************************)
(* The bridge thread of start_communication_thread.                        *)
(***************************************************************************)
\* StatusNotifierWatcher::new and create_notifier_host succeed
BridgeConnect ==
    /\ b_pc = "connect"
    /\ b_pc' = "recv"
    /\ UNCHANGED << theme, hostLog, message, inbound, sentLog, destroyed,
                    syncVars, outbound, ui >>

\* one of the two fails and its unwrap panics
BridgeConnectFail ==
    /\ b_pc = "connect"
    /\ b_pc' = "panicked"
    /\ UNCHANGED << theme, hostLog, message, inbound, sentLog, destroyed,
                    syncVars, outbound, ui >>

\* host.recv().await yields Ok(message)
BridgeRecv ==
    /\ b_pc = "recv"
    /\ Len(hostLog) < MaxEvents
    /\ \E m \in Messages :
          /\ hostLog' = Append(hostLog, m)
          /\ message' = Some(m)
    /\ b_pc' = "send"
    /\ UNCHANGED << theme, inbound, sentLog, destroyed, syncVars, outbound, ui >>

\* as if the send were try_send with its error ignored: a message that
\* finds the channel full is discarded
BridgeSend_try_send ==
    /\ b_pc = "send"
    /\ IF Len(inbound) < InCap
       THEN /\ inbound' = Append(inbound, message[1])
            /\ sentLog' = Append(sentLog, message[1])
       ELSE UNCHANGED << inbound, sentLog >>
    /\ message' = None
    /\ b_pc' = "recv"
    /\ UNCHANGED << theme, hostLog, destroyed, syncVars, outbound, ui >>

\* sender.send(message).await completes: the channel has room
BridgeSend ==
    /\ b_pc = "send"
    /\ Len(inbound) < InCap
    /\ inbound' = Append(inbound, message[1])
    /\ sentLog' = Append(sentLog, message[1])
    /\ message' = None
    /\ b_pc' = "recv"
    /\ UNCHANGED << theme, hostLog, destroyed, syncVars, outbound, ui >>

\* sender.send(message).await returns Err: the receiver is gone with the
\* panicked UI thread, and the expect panics
BridgeSendFail ==
    /\ b_pc = "send"
    /\ ui = "panicked"
    /\ message' = None
    /\ b_pc' = "panicked"
    /\ UNCHANGED << theme, hostLog, inbound, sentLog, destroyed, syncVars,
                    outbound, ui >>

\* as if the closure returned right after the while let, without
\* host.destroy()
BridgeHostEnd_no_destroy ==
    /\ b_pc = "recv"
    /\ b_pc' = "exited"
    /\ UNCHANGED << theme, hostLog, message, inbound, sentLog, destroyed,
                    syncVars, outbound, ui >>

\* host.recv().await yields Err: the while let ends
BridgeHostEnd ==
    /\ b_pc = "recv"
    /\ b_pc' = "destroy"
    /\ UNCHANGED << theme, hostLog, message, inbound, sentLog, destroyed,
                    syncVars, outbound, ui >>

\* host.destroy().await, then the thread's closure returns
BridgeDestroy ==
    /\ b_pc = "destroy"
    /\ destroyed' = destroyed + 1
    /\ b_pc' = "exited"
    /\ UNCHANGED << theme, hostLog, message, inbound, sentLog,
                    syncVars, outbound, ui >>

\* the watcher that owns cmd_rx takes the next command off the channel
WatcherTakeCommand ==
    /\ b_pc \in {"recv", "send", "destroy"}
    /\ outbound # <<>>
    /\ outbound' = Tail(outbound)
    /\ UNCHANGED << theme, bridgeVars, inbound, syncVars, ui >>

Bridge ==
    \/ BridgeConnect
    \/ BridgeConnectFail
    \/ BridgeRecv
    \/ BridgeSend
    \/ BridgeSendFail
    \/ BridgeHostEnd
    \/ BridgeDestroy
    \/ WatcherTakeCommand

(***************************************************************************)
(* One pass of the body of `for (address, notifier_item) in state.iter()`  *)
(* in spawn_local_handler.                                                 *)
(***************************************************************************)
\* as if only Active items were displayed
Displayed_active_only(ni) == ni.item.status = "Active"

Displayed(ni) == ni.item.status # "Passive"

\* as if notifier_item.item.menu were unwrapped once, before the .map()
menu_path_panics_hoisted(ni) ==
    /\ ni.menu # None
    /\ ni.item.menu = None

\* the closure of the .map() runs once per entry of submenus, and unwraps
\* notifier_item.item.menu each time
menu_path_panics(ni) ==
    /\ ni.menu # None
    /\ ni.menu[1].submenus # <<>>
    /\ ni.item.menu = None

\* the pass panics: in get_icon, or at the unwrap of the menu path once an
\* icon has been found
render_panics(ni, th) ==
    /\ Displayed(ni)
    /\ \/ get_icon_panics(ni)
       \/ get_icon(ni, th) # None /\ menu_path_panics(ni)

\* the top-level MenuItem built for an item whose icon was found; `address`
\* records which entry of the map it was built for
top_menu_item(address, ni, icon) ==
    LET menu == IF ni.menu = None THEN <<>>
                ELSE [i \in 1..Len(ni.menu[1].submenus) |->
                         to_menu_item(ni.menu[1].submenus[i], address, ni.item.menu[1])]
    IN  [kind |-> "MenuItem",
         address |-> address,
         icon |-> icon,
         submenu |-> IF ni.menu # None /\ ni.menu[1].submenus # <<>>
                     THEN Some(menu) ELSE None]

(***************************************************************************)
(* The future spawn_local_handler spawns on the main context.              *)
(***************************************************************************)
\* receiver.recv().await yields Some(item); STATE is locked and the message
\* applied to the map
SyncRecv ==
    /\ ui = "running"
    /\ s_pc = "await"
    /\ inbound # <<>>
    /\ lock = "free"
    /\ inbound' = Tail(inbound)
    /\ lock' = "held"
    /\ state' = apply(state, Head(inbound))
    /\ shows' = 0
    /\ s_pc' = "teardown"
    /\ UNCHANGED << theme, bridgeVars, iter, v_box, outbound, ui >>

\* as if the children of v_box were not removed before the for loop
SyncTeardown_keep_children ==
    /\ ui = "running"
    /\ s_pc = "teardown"
    /\ v_box' = v_box
    /\ iter' \in IterOrders(state)
    /\ s_pc' = "render"
    /\ UNCHANGED << theme, bridgeVars, inbound, lock, state, shows, outbound, ui >>

\* every child is removed from v_box, and state.iter() is created
SyncTeardown ==
    /\ ui = "running"
    /\ s_pc = "teardown"
    /\ v_box' = <<>>
    /\ iter' \in IterOrders(state)
    /\ s_pc' = "render"
    /\ UNCHANGED << theme, bridgeVars, inbound, lock, state, shows, outbound, ui >>

\* one turn of the for loop that ends in `continue`: the item is Passive
SyncSkipPassive ==
    /\ ui = "running"
    /\ s_pc = "render"
    /\ iter # <<>>
    /\ ~Displayed(state[Head(iter)][1])
    /\ iter' = Tail(iter)
    /\ UNCHANGED << theme, bridgeVars, inbound, s_pc, lock, state, v_box, shows,
                    outbound, ui >>

\* one turn of the for loop for a displayed item: the element is built and
\* appended if get_icon returns an image, then v_box.show_all()
SyncRenderItem ==
    /\ ui = "running"
    /\ s_pc = "render"
    /\ iter # <<>>
    /\ LET address == Head(iter)
           ni == state[address][1]
           icon == get_icon(ni, theme)
       IN  /\ Displayed(ni)
           /\ ~render_panics(ni, theme)
           /\ v_box' = IF icon # None
                       THEN Append(v_box, top_menu_item(address, ni, icon[1]))
                       ELSE v_box
    /\ shows' = shows + 1
    /\ iter' = Tail(iter)
    /\ UNCHANGED << theme, bridgeVars, inbound, s_pc, lock, state, outbound, ui >>

\* one turn of the for loop panics; the unwinding drops the guard and
\* poisons the mutex
SyncRenderPanic ==
    /\ ui = "running"
    /\ s_pc = "render"
    /\ iter # <<>>
    /\ render_panics(state[Head(iter)][1], theme)
    /\ ui' = "panicked"
    /\ lock' = "poisoned"
    /\ UNCHANGED << theme, bridgeVars, inbound, s_pc, state, iter, v_box, shows,
                    outbound >>

\* as if the guard were bound outside the while loop and kept across the
\* next receiver.recv().await
SyncPassEnd_keep_guard ==
    /\ ui = "running"
    /\ s_pc = "render"
    /\ iter = <<>>
    /\ lock' = lock
    /\ s_pc' = "await"
    /\ UNCHANGED << theme, bridgeVars, inbound, state, iter, v_box, shows,
                    outbound, ui >>

\* the for loop is over; the guard `state` goes out of scope at the end of
\* the while body
SyncPassEnd ==
    /\ ui = "running"
    /\ s_pc = "render"
    /\ iter = <<>>
    /\ lock' = "free"
    /\ s_pc' = "await"
    /\ UNCHANGED << theme, bridgeVars, inbound, state, iter, v_box, shows,
                    outbound, ui >>

\* receiver.recv().await yields None: the bridge's sender is dropped and the
\* channel is empty
SyncClosed ==
    /\ ui = "running"
    /\ s_pc = "await"
    /\ inbound = <<>>
    /\ b_pc \in {"exited", "panicked"}
    /\ s_pc' = "done"
    /\ UNCHANGED << theme, bridgeVars, inbound, lock, state, iter, v_box, shows,
                    outbound, ui >>

Sync ==
    \/ SyncRecv
    \/ SyncTeardown
    \/ SyncSkipPassive
    \/ SyncRenderItem
    \/ SyncRenderPanic
    \/ SyncPassEnd
    \/ SyncClosed

(***************************************************************************)
(* The activate signal of a widget built by to_menu_item, which runs the   *)
(* closure of connect_activate.  A widget is named by the index of its     *)
(* top-level element in v_box and the path of child indices below it.      *)
(***************************************************************************)
Children(w) == IF w.submenu = None THEN <<>> ELSE w.submenu[1]

RECURSIVE WidgetPaths(_)
WidgetPaths(ws) ==
    UNION { {<<i>>} \cup { <<i>> \o p : p \in WidgetPaths(Children(ws[i])) } :
            i \in 1..Len(ws) }

RECURSIVE WidgetAt(_, _)
WidgetAt(ws, path) ==
    IF Len(path) = 1 THEN ws[path[1]]
    ELSE WidgetAt(Children(ws[path[1]]), Tail(path))

\* the receiver cmd_rx lives in the watcher, inside the bridge's block_on
CmdClosed == b_pc \in {"exited", "panicked"}

MenuItemClicked(w) ==
    [submenu_id |-> w.activate.submenu_id,
     menu_path |-> w.activate.menu_path,
     notifier_address |-> w.activate.notifier_address]

\* try_send returns Ok
ActivateAt(i, path) ==
    /\ ui = "running"
    /\ s_pc \in {"await", "done"}
    /\ i \in 1..Len(v_box)
    /\ path \in WidgetPaths(Children(v_box[i]))
    /\ ~CmdClosed
    /\ Len(outbound) < CmdCap
    /\ outbound' = Append(outbound, MenuItemClicked(WidgetAt(Children(v_box[i]), path)))
    /\ UNCHANGED << theme, bridgeVars, inbound, syncVars, ui >>

Activate == \E i \in 1..Len(v_box) : \E path \in WidgetPaths(Children(v_box[i])) : ActivateAt(i, path)

\* as if the closure used blocking_send: the main thread waits for room
ActivatePanic_blocking_send ==
    /\ ui = "running"
    /\ s_pc \in {"await", "done"}
    /\ \E i \in 1..Len(v_box) : WidgetPaths(Children(v_box[i])) # {}
    /\ CmdClosed \/ Len(outbound) >= CmdCap
    /\ ui' = "blocked"
    /\ UNCHANGED << theme, bridgeVars, inbound, syncVars, outbound >>

\* try_send returns Err (the channel is full or closed) and the unwrap panics
ActivatePanic ==
    /\ ui = "running"
    /\ s_pc \in {"await", "done"}
    /\ \E i \in 1..Len(v_box) : WidgetPaths(Children(v_box[i])) # {}
    /\ CmdClosed \/ Len(outbound) >= CmdCap
    /\ ui' = "panicked"
    /\ UNCHANGED << theme, bridgeVars, inbound, syncVars, outbound >>

Next == Bridge \/ Sync \/ Activate \/ ActivatePanic

Spec == Init /\ [][Next]_vars

\* The bridge's thread and the handler's future are scheduled fairly: a send
\* that can complete does, and the handler takes its next step.  What the
\* host delivers and what the user clicks is left open.
FairSpec ==
    /\ Spec
    /\ WF_vars(BridgeSend)
    /\ WF_vars(Sync)

TypeOK ==
    /\ theme \in Themes
    /\ b_pc \in {"connect", "recv", "send", "destroy", "exited", "panicked"}
    /\ s_pc \in {"await", "teardown", "render", "done"}
    /\ lock \in {"free", "held", "poisoned"}
    /\ ui \in {"running", "panicked"}
    /\ Len(hostLog) <= MaxEvents
    /\ Len(inbound) <= InCap
    /\ Len(outbound) <= CmdCap
    /\ destroyed \in 0..1

(***************************************************************************)
(* Shorthands of the properties.                                           *)
(***************************************************************************)
IsPrefix(s, t) == Len(s) <= Len(t) /\ SubSeq(t, 1, Len(s)) = s

IsSuffix(s, t) == Len(s) <= Len(t) /\ SubSeq(t, Len(t) - Len(s) + 1, Len(t)) = s

\* the messages the handler has taken off the channel, in host arrival order
Consumed == SubSeq(hostLog, 1, Len(sentLog) - Len(inbound))

\* every message the host delivered has been taken off the channel and applied
AllConsumed == inbound = <<>> /\ b_pc # "send" /\ Len(sentLog) = Len(hostLog)

\* the handler has finished with the messages it took
Settled == s_pc \in {"await", "done"}

\* Folding Update/Remove messages one after the other over the empty map
\* leaves, for every address, what the last message for that address says.
LastFor(log, a) ==
    LET at == { i \in 1..Len(log) : log[i].address = a }
    IN  IF at = {} THEN 0 ELSE CHOOSE i \in at : \A j \in at : j <= i

Sequential(log) ==
    [a \in Addresses |->
        LET k == LastFor(log, a)
        IN  IF k = 0 \/ log[k].type = "Remove" THEN None
            ELSE Some([item |-> log[k].item, menu |-> log[k].menu])]

C2_UpdateReplaces ==
    [][ (SyncRecv /\ Head(inbound).type = "Update" /\ state[Head(inbound).address] # None)
        => LET msg == Head(inbound)
           IN  /\ state'[msg.address] = Some([item |-> msg.item, menu |-> msg.menu])
               /\ \A a \in Addresses \ {msg.address} : state'[a] = state[a] ]_vars

\* a record with a menu has been replaced by a payload without one
C2_Witness ==
    /\ AllConsumed
    /\ Settled
    /\ Len(hostLog) = 2
    /\ hostLog[1].type = "Update" /\ hostLog[1].menu # None
    /\ hostLog[2].type = "Update" /\ hostLog[2].menu = None
    /\ hostLog[1].address = hostLog[2].address
    /\ state[hostLog[2].address] = Some([item |-> hostLog[2].item, menu |-> None])

(***************************************************************************)
(* C3: a Remove for an address without a record leaves the map as it was   *)
(* and raises no error: the handler goes on to the render pass, and no     *)
(* record left in the map makes that pass panic; a Remove applied a second *)
(* time gives the map the first one gave.                                  *)
(***************************************************************************)
C3_RemoveAbsentIsNoOp ==
    [][ (SyncRecv /\ Head(inbound).type = "Remove")
        => LET msg == Head(inbound)
           IN  /\ apply(state', msg) = state'
               /\ state[msg.address] = None
                    => /\ state' = state
                       /\ ui' = "running"
                       /\ s_pc' = "teardown"
                       /\ \A a \in Keys(state') : ~render_panics(state'[a][1], theme) ]_vars

\* a Remove for an address that has no record has been handled, the other
\* address keeps its record, and the handler is back at the await
C3_Witness ==
    /\ AllConsumed
    /\ s_pc = "await"
    /\ ui = "running"
    /\ Len(hostLog) = 2
    /\ hostLog[1].type = "Update"
    /\ hostLog[2].type = "Remove" /\ hostLog[2].address # hostLog[1].address
    /\ state[hostLog[1].address] # None

\* the addresses of the top-level elements of the menu bar, in its order
RenderedAddresses == [i \in 1..Len(v_box) |-> v_box[i].address]

RenderedSet == { v_box[i].address : i \in 1..Len(v_box) }

\* every record that is not Passive has an icon name that some lookup finds
AllIconsResolve ==
    \A a \in Keys(state) :
        state[a][1].item.status # "Passive"
            => /\ state[a][1].item.icon_name # None
               /\ \/ theme.default
                  \/ theme.fallback
                  \/ /\ theme.custom
                     /\ state[a][1].item.icon_theme_path \notin {None, Some("")}

(***************************************************************************)
(* C4: once the handler has finished with a message, and every icon of the *)
(* map resolves, the addresses with a top-level element in the menu bar    *)
(* are the addresses whose record is Active or NeedsAttention, one element *)
(* each; a Passive record has no element.                                  *)
(***************************************************************************)
C4_RenderedAreTheDisplayed ==
    (Settled /\ AllIconsResolve)
        => /\ RenderedSet =
                { a \in Keys(state) : state[a][1].item.status \in {"Active", "NeedsAttention"} }
           /\ Cardinality(RenderedSet) = Len(v_box)
           /\ \A a \in RenderedSet : state[a][1].item.status # "Passive"

\* an Active record is shown and a Passive one beside it is not
C4_Witness ==
    /\ s_pc = "await"
    /\ ui = "running"
    /\ AllConsumed
    /\ AllIconsResolve
    /\ state["A"] # None /\ state["A"][1].item.status = "Passive"
    /\ state["B"] # None /\ state["B"][1].item.status = "Active"
    /\ RenderedAddresses = << "B" >>

(***************************************************************************)
(* C5: the order of the top-level elements is a function of the map's      *)
(* contents: whatever order state.iter() yields the entries in, a render   *)
(* pass over the same map appends the same sequence of addresses.          *)
(***************************************************************************)
\* the addresses a pass over the map appends when iter() yields `order`
AppendedIn(order) ==
    SelectSeq(order, LAMBDA a : /\ Displayed(state[a][1])
                                /\ ~get_icon_panics(state[a][1])
                                /\ get_icon(state[a][1], theme) # None)

C5_OrderIsFunctionOfState ==
    s_pc = "teardown"
        => \A o1, o2 \in IterOrders(state) : AppendedIn(o1) = AppendedIn(o2)

(***************************************************************************)
(* C6: what the bridge has put on the inbound channel is, at every moment, *)
(* a prefix of what host.recv() has returned; the one message that may be  *)
(* missing is the message the bridge is holding at its send, which it      *)
(* keeps while the channel is full; and the channel holds the most recent  *)
(* of the sent messages, in the order sent.                                *)
(***************************************************************************)
C6_RelayInOrder ==
    /\ IsPrefix(sentLog, hostLog)
    /\ IsSuffix(inbound, sentLog)
    /\ b_pc = "send" => hostLog = Append(sentLog, message[1])
    /\ b_pc \in {"connect", "recv", "destroy", "exited"} => hostLog = sentLog

\* the bridge is suspended at its send on a full channel, a message already
\* relayed before it
C6_Witness ==
    /\ b_pc = "send"
    /\ Len(inbound) = InCap
    /\ Len(hostLog) = 2
    /\ hostLog[1] # hostLog[2]
    /\ message = Some(hostLog[2])
    /\ inbound = << hostLog[1] >>

(***************************************************************************)
(* The node of a menu an element was built for: the node at the same path  *)
(* of child indices.                                                       *)
(***************************************************************************)
RECURSIVE NodeAt(_, _)
NodeAt(nodes, path) ==
    IF Len(path) = 1 THEN nodes[path[1]]
    ELSE NodeAt(nodes[path[1]].submenu, Tail(path))

RECURSIVE IdsOfKind(_, _)
IdsOfKind(nodes, kind) ==
    UNION { (IF nodes[i].menu_type = kind THEN {nodes[i].id} ELSE {})
                \cup IdsOfKind(nodes[i].submenu, kind) : i \in 1..Len(nodes) }

\* the ids of the Separator nodes of the menus the host announces; no
\* Standard node of these menus has one of them
SeparatorIds ==
    UNION { IdsOfKind(ni.menu[1].submenus, "Separator") : ni \in { p \in Payloads : p.menu # None } }

(***************************************************************************)
(* C7: one activation of the element built for a Standard node, at any     *)
(* depth of an item's menu, puts exactly one MenuItemClicked on the        *)
(* outbound channel when it has room, with the node's id, the item's menu  *)
(* path and the item's address.                                            *)
(***************************************************************************)
C7_ClickCarriesItsNode ==
    [][ \A i \in 1..Len(v_box) : \A path \in WidgetPaths(Children(v_box[i])) :
          LET address == v_box[i].address
              ni == state[address][1]
              k == NodeAt(ni.menu[1].submenus, path)
          IN  (ActivateAt(i, path) /\ k.menu_type = "Standard")
                => outbound' = Append(outbound,
                                      [submenu_id |-> k.id,
                                       menu_path |-> ni.item.menu[1],
                                       notifier_address |-> address]) ]_vars

\* with the menus of two items of different menu paths in the menu bar, the
\* element of a Standard node below the root of one item's menu has been
\* activated
C7_Witness ==
    /\ ui = "running"
    /\ Settled
    /\ state["A"] = Some(ItemFull)
    /\ state["B"] = Some(ItemSmall)
    /\ RenderedSet = {"A", "B"}
    /\ NodeAt(MenuDeep.submenus, <<1, 1>>).id = 2
    /\ NodeAt(MenuDeep.submenus, <<1, 1>>).menu_type = "Standard"
    /\ outbound = << [submenu_id |-> 2, menu_path |-> "/MenuBar", notifier_address |-> "A"] >>

(***************************************************************************)
(* C8: no MenuItemClicked on the outbound channel carries the id of a      *)
(* Separator node: the element built for a Separator has no activate       *)
(* handler that sends one.                                                 *)
(***************************************************************************)
C8_NoSeparatorCommand ==
    \A n \in 1..Len(outbound) : outbound[n].submenu_id \notin SeparatorIds

(***************************************************************************)
(* C9: get_icon takes the first lookup that succeeds, in the order custom  *)
(* theme path (when present and not empty), default theme, "image-missing":*)
(* once the handler has finished with a message, the element of a          *)
(* displayed item carries the image of that lookup, and an item none of    *)
(* whose lookups succeeds has no element, while the others have theirs.    *)
(***************************************************************************)
C9_IconFallbackOrder ==
    Settled =>
        \A a \in Keys(state) :
            LET ni == state[a][1]
                customFound == /\ ni.item.icon_theme_path \notin {None, Some("")}
                               /\ theme.custom
                shown == { i \in 1..Len(v_box) : v_box[i].address = a }
            IN  ni.item.status # "Passive"
                  => /\ customFound
                          => \E i \in shown : v_box[i].icon = "custom"
                     /\ (~customFound /\ theme.default)
                          => \E i \in shown : v_box[i].icon = "default"
                     /\ (~customFound /\ ~theme.default /\ theme.fallback)
                          => \E i \in shown : v_box[i].icon = "image-missing"
                     /\ (~customFound /\ ~theme.default /\ ~theme.fallback)
                          => shown = {}
                     /\ Cardinality(shown) <= 1

\* only the custom theme path holds the icon: the item that names the path
\* is shown with the custom image, the displayed item without a path is not
C9_Witness ==
    /\ s_pc = "await"
    /\ ui = "running"
    /\ AllConsumed
    /\ theme = [custom |-> TRUE, default |-> FALSE, fallback |-> FALSE]
    /\ state["A"] # None
    /\ state["A"][1].item.icon_theme_path = Some("/theme")
    /\ state["B"] # None
    /\ state["B"][1].item.status # "Passive"
    /\ state["B"][1].item.icon_theme_path = None
    /\ RenderedAddresses = << "A" >>
    /\ v_box[1].icon = "custom"

(***************************************************************************)
(* C10: get_icon is total: whenever the render pass calls it, for whatever *)
(* record, it returns an image or None and does not panic.                 *)
(***************************************************************************)
C10_GetIconTotal ==
    (s_pc = "render" /\ iter # <<>> /\ state[Head(iter)][1].item.status # "Passive")
        => ~get_icon_panics(state[Head(iter)][1])

(***************************************************************************)
(* C11: the lock on STATE is released before any element of the menu bar   *)
(* is touched: the handler never holds the lock while it is about to       *)
(* remove the children of v_box or to build the element of an item.        *)
(***************************************************************************)
C11_NoWidgetWorkUnderLock ==
    s_pc \in {"teardown", "render"} => lock # "held"

(***************************************************************************)
(* C12: each message the handler takes leads to a full teardown and        *)
(* rebuild.  Once the pass is over, v_box holds exactly one element per    *)
(* entry of the current map that is displayed and whose icon was found,    *)
(* nothing left from an earlier pass, and every element has a menu exactly *)
(* when the current record has a non-empty menu.  In particular, an item   *)
(* with a one-entry menu, then a Passive item, then the removal of the     *)
(* first, end with an empty v_box.                                         *)
(***************************************************************************)
RebuiltFrom(st) ==
    { a \in Keys(st) : Displayed(st[a][1]) /\ get_icon(st[a][1], theme) # None }

C13_DestroyOnceAtEnd ==
    /\ destroyed <= 1
    /\ b_pc = "destroy" => (destroyed = 0 /\ sentLog = hostLog /\ message = None)
    /\ b_pc = "exited" => (destroyed = 1 /\ sentLog = hostLog)
    /\ destroyed = 1 => b_pc = "exited"

C13_Witness ==
    /\ b_pc = "exited"
    /\ destroyed = 1
    /\ Len(hostLog) = MaxEvents
    /\ sentLog = hostLog

(***************************************************************************)
(* C14: a click whose command cannot be put on the channel is fatal on the *)
(* spot.  Every activation either appends one command, when the channel is *)
(* open and has room, or else leaves the channel as it was and panics the  *)
(* UI thread; none is dropped with the UI running on, and none waits.      *)
(***************************************************************************)
C14_FailedClickIsFatal ==
    [][ (Activate \/ ActivatePanic) =>
            IF CmdClosed \/ Len(outbound) >= CmdCap
            THEN ui' = "panicked" /\ outbound' = outbound
            ELSE ui' = "running" /\ Len(outbound') = Len(outbound) + 1 ]_vars

\* a click on a full channel, with the watcher alive, has panicked
C14_Witness ==
    /\ ui = "panicked"
    /\ s_pc = "await"
    /\ ~CmdClosed
    /\ Len(outbound) = CmdCap

(***************************************************************************)
(* C15: v_box.show_all() is called for every message the handler has       *)
(* processed, also when no element was appended.                           *)
(***************************************************************************)
C15_ShowAllEveryPass ==
    (s_pc = "await" /\ Len(Consumed) >= 1) => shows >= 1

(***************************************************************************)
(* C16: to_menu_item does not descend into a Separator: no                 *)
(* SeparatorMenuItem on the bar has a submenu.                             *)
(***************************************************************************)
C16_SeparatorHasNoSubmenu ==
    \A i \in 1..Len(v_box) :
        \A path \in WidgetPaths(Children(v_box[i])) :
            LET w == WidgetAt(Children(v_box[i]), path)
            IN  w.kind = "SeparatorMenuItem" => w.submenu = None

(***************************************************************************)
(* C17: the elements mirror the menu.  The top-level element of an item    *)
(* has a menu exactly when the record has a menu whose root is not empty;  *)
(* a menu holds one element per node, in the nodes' order; and the element *)
(* of a Standard node has a submenu exactly when the node has children,    *)
(* built the same way, at every depth.                                     *)
(***************************************************************************)
RECURSIVE Mirrors(_, _)
Mirrors(ws, nodes) ==
    /\ Len(ws) = Len(nodes)
    /\ \A k \in 1..Len(nodes) :
          /\ ws[k].activate.submenu_id = nodes[k].id
          /\ nodes[k].menu_type = "Standard" =>
                /\ ws[k].kind = "MenuItem"
                /\ ws[k].label = nodes[k].label
                /\ (ws[k].submenu # None) <=> (nodes[k].submenu # <<>>)
                /\ Mirrors(Children(ws[k]), nodes[k].submenu)

C17_ElementsMirrorMenu ==
    (Settled /\ ui = "running") =>
        \A i \in 1..Len(v_box) :
            LET ni == state[v_box[i].address][1]
            IN  /\ (v_box[i].submenu # None)
                       <=> (ni.menu # None /\ ni.menu[1].submenus # <<>>)
                /\ v_box[i].submenu # None =>
                       Mirrors(v_box[i].submenu[1], ni.menu[1].submenus)

\* the item with the two-level menu is on the bar: a Standard node with one
\* child has a submenu of one element, and that childless child has none
C17_Witness ==
    /\ Settled /\ ui = "running"
    /\ state["A"] = Some(ItemFull)
    /\ \E i \in 1..Len(v_box) :
          /\ v_box[i].address = "A"
          /\ Len(Children(v_box[i])) = Len(MenuDeep.submenus)
          /\ LET w == Children(v_box[i])[1]
             IN  /\ w.kind = "MenuItem"
                 /\ Len(Children(w)) = 1
                 /\ Children(w)[1].submenu = None

(***************************************************************************)
(* C18: the lock on STATE is never held across receiver.recv().await: it   *)
(* is taken after a message has been received and is free again whenever   *)
(* the handler is at the await.                                            *)
(***************************************************************************)
C18_LockFreeAtAwait ==
    /\ s_pc \in {"await", "done"} => lock = "free"
    /\ lock = "held" => (s_pc \in {"teardown", "render"} /\ Len(Consumed) >= 1)

\* back at the await after two turns of the while loop
C18_Witness ==
    /\ s_pc = "await"
    /\ ui = "running"
    /\ lock = "free"
    /\ Len(Consumed) = 2

(***************************************************************************)
(* C19: a missing icon name or menu path is fatal only for an item that is *)
(* displayed.  The pass panics exactly at a non-Passive record whose       *)
(* icon_name is None, or whose icon is found and whose menu has a root     *)
(* node while its menu path is None; the message is in the map by then.    *)
(* A Passive record, or one with no menu or an empty one, with the same    *)
(* fields missing, lets the pass finish.                                   *)
(***************************************************************************)
MissingIsFatal(ni) ==
    /\ ni.item.status # "Passive"
    /\ \/ ni.item.icon_name = None
       \/ /\ get_icon(ni, theme) # None
          /\ ni.menu # None
          /\ Len(ni.menu[1].submenus) >= 1
          /\ ni.item.menu = None

C19_MissingFatalOnlyIfRendered ==
    /\ (ui = "panicked" /\ s_pc = "render") =>
          /\ iter # <<>>
          /\ MissingIsFatal(state[Head(iter)][1])
          /\ state = Sequential(Consumed)
    /\ (Settled /\ Len(Consumed) >= 1) =>
          \A a \in Keys(state) : ~MissingIsFatal(state[a][1])
    /\ (s_pc = "render" /\ ui = "running" /\ iter # <<>>
            /\ MissingIsFatal(state[Head(iter)][1])) => ENABLED SyncRenderPanic

\* the pass has panicked at an item with an icon and a menu, but no menu path
C19_Witness ==
    /\ ui = "panicked"
    /\ s_pc = "render"
    /\ lock = "poisoned"
    /\ state["A"] = Some(ItemNoMenuPath)
    /\ Head(iter) = "A"
    /\ get_icon(ItemNoMenuPath, theme) # None

(***************************************************************************)
(* C20: with the bridge and the handler scheduled fairly, every message    *)
(* the bridge receives from the host is in the end applied and followed by *)
(* a finished render pass, unless the UI thread panics.  A full channel    *)
(* only delays the bridge; nothing waits forever.                          *)
(***************************************************************************)
C20_EveryMessageRendered ==
    \A n \in 1..MaxEvents :
        (Len(hostLog) >= n) ~>
            (ui = "panicked" \/ (Len(Consumed) >= n /\ s_pc \in {"await", "done"}))

\* every message the host delivered has been rendered, the bridge is back
\* at host.recv()
C20_Witness ==
    /\ ui = "running"
    /\ b_pc = "recv"
    /\ Len(hostLog) = MaxEvents
    /\ Len(Consumed) = MaxEvents
    /\ s_pc = "await"

====
